---- MODULE Spec2Model ----
(***************************************************************************)
(* Breadth-first maze traversal of bfs.c: a grid of Wall/Open cells, a     *)
(* linked list of visit records used both as the FIFO frontier and, via    *)
(* parent pointers, as the discovery forest, the flood in the four axis    *)
(* directions, the exit selection on the last row and the backward path    *)
(* reconstruction.  Rows are indexed by x and columns by y, as in the      *)
(* source.  Each recursive call of the source is one step of the model.    *)
(***************************************************************************)
EXTENDS Integers, Sequences, FiniteSets

\* Bounds of the model: the largest grid that is explored.
MaxRows == 3
MaxCols == 3

\* Cell character types and miscellaneous constants of the source.
WALL == "#"
PATH == "."
NOTVISIT == -1
NIL == 0
NULL == <<>>
NUL == "NUL"

VARIABLES
    rows,      \* maze->rows
    cols,      \* maze->cols
    type,      \* maze->cells[x][y].type
    cost,      \* maze->cells[x][y].cost
    reach,     \* maze->cells[x][y].reach
    soln,      \* maze->cells[x][y].soln
    mazeCost,  \* maze->cost
    mazeSoln,  \* maze->soln
    queue,     \* the list of visit records, head first; <<>> is the NULL list
    pc,        \* the function that is about to run
    lim,       \* the lim argument of find_entries / find_exit
    node,      \* the list_t *queue argument of recursive_flood / shortest_path
    local,     \* the locals x, y, cost of recursive_flood
    exit,      \* the exit argument of find_exit / shortest_path
    exitCost,  \* the cost argument of find_exit
    ex,        \* the local ex of traverse_maze
    ret,       \* the number of "1 +" frames pending in shortest_path
    expanded,  \* history: the records recursive_flood has read the cell of
    touched    \* history: the positions whose cell was read or written

vars == <<rows, cols, type, cost, reach, soln, mazeCost, mazeSoln, queue, pc,
          lim, node, local, exit, exitCost, ex, ret, expanded, touched>>

\* The positions of a grid of r rows and c columns.
Cells(r, c) == (0 .. r - 1) \X (0 .. c - 1)

----------------------------------------------------------------------------
\* The linked list.  A record is [cell, parent]; its next pointer is its
\* position in the sequence; a pointer to a record is its index, 0 is NULL.

new_list == [cell |-> NULL, parent |-> 0]

\* An append that leaves the parent pointer of the new record NULL.
append_noparent(list, parent, cell) ==
    Append(list, [new_list EXCEPT !.cell = cell])

\* An append that links the new record in front of the head instead.
append_at_head(list, parent, cell) ==
    <<[new_list EXCEPT !.parent = IF parent = 0 THEN 0 ELSE parent + 1,
                       !.cell = cell]>> \o
    [i \in 1 .. Len(list) |->
        [list[i] EXCEPT !.parent = IF @ = 0 THEN 0 ELSE @ + 1]]

\* append walks from the given node to the last node and links a new record.
append(list, parent, cell) ==
    Append(list, [new_list EXCEPT !.parent = parent, !.cell = cell])

\* prepend puts a new record in front of the list: every record moves one
\* position towards the tail, and so does every non-NULL parent pointer.
prepend(list, cell) ==
    <<[new_list EXCEPT !.cell = cell]>> \o
    [i \in 1 .. Len(list) |->
        [list[i] EXCEPT !.parent = IF @ = 0 THEN 0 ELSE @ + 1]]

\* The head pointer of a list.
head(list) == IF Len(list) = 0 THEN 0 ELSE 1

\* A step to the same node instead of the next one.
next_same(list, n) == n

\* node->next
next(list, n) == IF n < Len(list) THEN n + 1 ELSE 0

----------------------------------------------------------------------------
\* The state the reader hands to traverse_maze: a populated rows x cols grid,
\* every cell with cost NOTVISIT, the rest of the calloc'ed fields zero.
Init ==
    /\ rows \in 1 .. MaxRows
    /\ cols \in 1 .. MaxCols
    /\ type \in [Cells(rows, cols) -> {WALL, PATH}]
    /\ cost = [c \in Cells(rows, cols) |-> NOTVISIT]
    /\ reach = [c \in Cells(rows, cols) |-> FALSE]
    /\ soln = [c \in Cells(rows, cols) |-> FALSE]
    /\ mazeCost = 0
    /\ mazeSoln = FALSE
    /\ queue = <<>>
    /\ pc = "find_entries"
    /\ lim = cols
    /\ node = 0
    /\ local = [x |-> 0, y |-> 0, cost |-> 0]
    /\ exit = NULL
    /\ exitCost = NOTVISIT
    /\ ex = NULL
    /\ ret = 0
    /\ expanded = {}
    /\ touched = {}

----------------------------------------------------------------------------
\* find_entries: one call of the recursion over the cells of row 0.  An Open
\* cell becomes reachable at cost FALSE (0) and gets a root record; when lim
\* is 0 the queue is returned and traverse_maze calls recursive_flood on it.
find_entries ==
    /\ pc = "find_entries"
    /\ IF lim # 0
       THEN LET cell == <<0, cols - lim>> IN
            /\ IF type[cell] = PATH
               THEN /\ reach' = [reach EXCEPT ![cell] = TRUE]
                    /\ cost' = [cost EXCEPT ![cell] = 0]
                    /\ queue' = IF queue = <<>>
                                THEN prepend(queue, cell)
                                ELSE append(queue, 0, cell)
               ELSE UNCHANGED <<reach, cost, queue>>
            /\ touched' = touched \cup {cell}
            /\ lim' = lim - 1
            /\ UNCHANGED <<pc, node>>
       ELSE /\ pc' = "recursive_flood"
            /\ node' = head(queue)
            /\ UNCHANGED <<reach, cost, queue, lim, touched>>
    /\ UNCHANGED <<rows, cols, type, soln, mazeCost, mazeSoln, local, exit,
                   exitCost, ex, ret, expanded>>

\* A flood that forgets the increment.
flood_cost_same(c) == c

\* The cost handed to the four floods: the cost of the expanded cell plus one.
flood_cost(c) == c + 1

\* recursive_flood: the test of the queue pointer and the read of the
\* record's cell into x, y, cost; on NULL the flood returns and traverse_maze
\* calls find_exit on the last row.
recursive_flood ==
    /\ pc = "recursive_flood"
    /\ IF node # 0
       THEN /\ local' = [x |-> queue[node].cell[1],
                         y |-> queue[node].cell[2],
                         cost |-> cost[queue[node].cell]]
            /\ expanded' = expanded \cup {node}
            /\ touched' = touched \cup {queue[node].cell}
            /\ pc' = "flood_right"
            /\ UNCHANGED <<lim, exit, exitCost>>
       ELSE /\ pc' = "find_exit"
            /\ lim' = cols
            /\ exit' = NULL
            /\ exitCost' = NOTVISIT
            /\ UNCHANGED <<local, expanded, touched>>
    /\ UNCHANGED <<rows, cols, type, cost, reach, soln, mazeCost, mazeSoln,
                   queue, node, ex, ret>>

\* Conditions that also hold on a tie, and that forget the unvisited case.
enqueue_cond_tie(cur, new) == cur < NIL \/ new <= cur
enqueue_cond_less(cur, new) == new < cur

\* The condition of visit_cell under which the cell's cost is set and the
\* cell is enqueued: cur is the cell's cost, new the proposed cost.
enqueue_cond(cur, new) == cur < NIL \/ new < cur

\* visit_cell: marks the cell reachable, and sets its cost and appends a
\* record whose parent is the expanded record when enqueue_cond holds.
visit_cell(x, y, c) ==
    /\ reach' = [reach EXCEPT ![<<x, y>>] = TRUE]
    /\ IF enqueue_cond(cost[<<x, y>>], c)
       THEN /\ cost' = [cost EXCEPT ![<<x, y>>] = c]
            /\ queue' = append(queue, node, <<x, y>>)
       ELSE UNCHANGED <<cost, queue>>

\* The type field of cells[x][y]: the rows are calloc'ed MAX_COLS wide, so a
\* position beyond the populated grid holds the zero byte.
cell_type(x, y) == IF <<x, y>> \in DOMAIN type THEN type[<<x, y>>] ELSE NUL

\* The bound each flood direction checks on the axis it moves along.
up_bound(x) == x >= NIL
down_bound_strict(x) == x < rows - 1
down_bound(x) == x < rows
left_bound_strict(y) == y > NIL
left_bound(y) == y >= NIL
right_bound_incl(y) == y <= cols
right_bound(y) == y < cols

\* A flood that does not look at the kind of the cell.
is_path_any(x, y) == <<x, y>> \in DOMAIN type

\* The kind test of the four floods (evaluated only when the bound holds).
is_path(x, y) == cell_type(x, y) = PATH

flood_right ==
    /\ pc = "flood_right"
    /\ LET x == local.x
           y == local.y + 1
       IN  /\ IF right_bound(y) /\ is_path(x, y)
              THEN visit_cell(x, y, flood_cost(local.cost))
              ELSE UNCHANGED <<reach, cost, queue>>
           /\ touched' = IF right_bound(y) THEN touched \cup {<<x, y>>}
                                           ELSE touched
    /\ pc' = "flood_down"
    /\ UNCHANGED <<rows, cols, type, soln, mazeCost, mazeSoln, lim, node,
                   local, exit, exitCost, ex, ret, expanded>>

flood_down ==
    /\ pc = "flood_down"
    /\ LET x == local.x + 1
           y == local.y
       IN  /\ IF down_bound(x) /\ is_path(x, y)
              THEN visit_cell(x, y, flood_cost(local.cost))
              ELSE UNCHANGED <<reach, cost, queue>>
           /\ touched' = IF down_bound(x) THEN touched \cup {<<x, y>>}
                                           ELSE touched
    /\ pc' = "flood_left"
    /\ UNCHANGED <<rows, cols, type, soln, mazeCost, mazeSoln, lim, node,
                   local, exit, exitCost, ex, ret, expanded>>

flood_left ==
    /\ pc = "flood_left"
    /\ LET x == local.x
           y == local.y - 1
       IN  /\ IF left_bound(y) /\ is_path(x, y)
              THEN visit_cell(x, y, flood_cost(local.cost))
              ELSE UNCHANGED <<reach, cost, queue>>
           /\ touched' = IF left_bound(y) THEN touched \cup {<<x, y>>}
                                           ELSE touched
    /\ pc' = "flood_up"
    /\ UNCHANGED <<rows, cols, type, soln, mazeCost, mazeSoln, lim, node,
                   local, exit, exitCost, ex, ret, expanded>>

\* flood_up is the last call before recursive_flood recurses on queue->next.
flood_up ==
    /\ pc = "flood_up"
    /\ LET x == local.x - 1
           y == local.y
       IN  /\ IF up_bound(x) /\ is_path(x, y)
              THEN visit_cell(x, y, flood_cost(local.cost))
              ELSE UNCHANGED <<reach, cost, queue>>
           /\ touched' = IF up_bound(x) THEN touched \cup {<<x, y>>}
                                           ELSE touched
    /\ node' = next(queue', node)
    /\ pc' = "recursive_flood"
    /\ UNCHANGED <<rows, cols, type, soln, mazeCost, mazeSoln, lim, local,
                   exit, exitCost, ex, ret, expanded>>

\* A candidate test that does not look at the reach flag.
is_candidate_noreach(t, r) == t = PATH

\* The test of find_exit that makes a last-row cell a candidate exit.
is_candidate(t, r) == t = PATH /\ r

\* Comparisons of find_exit in the wrong direction, and with ties included.
is_better_greater(c, best) == best < NIL \/ (c >= NIL /\ c > best)
is_better_tie(c, best) == best < NIL \/ (c >= NIL /\ c <= best)

\* The test of find_exit under which a candidate replaces the best so far:
\* c is the candidate's cost, best the cost of the best so far.
is_better(c, best) == best < NIL \/ (c >= NIL /\ c < best)

\* find_exit: one call of the recursion over the cells of the last row; when
\* lim is 0 the exit is returned into ex and, if it is not NULL,
\* traverse_maze calls shortest_path from the head of the queue.
find_exit ==
    /\ pc = "find_exit"
    /\ IF lim # 0
       THEN LET cell == <<rows - 1, cols - lim>> IN
            /\ IF /\ is_candidate(type[cell], reach[cell])
                  /\ is_better(cost[cell], exitCost)
               THEN /\ exit' = cell
                    /\ exitCost' = cost[cell]
               ELSE UNCHANGED <<exit, exitCost>>
            /\ touched' = touched \cup {cell}
            /\ lim' = lim - 1
            /\ UNCHANGED <<pc, node, ex, ret>>
       ELSE /\ ex' = exit
            /\ IF exit # NULL
               THEN /\ pc' = "shortest_path"
                    /\ node' = head(queue)
                    /\ ret' = 0
               ELSE /\ pc' = "free_list"
                    /\ UNCHANGED <<node, ret>>
            /\ UNCHANGED <<exit, exitCost, lim, touched>>
    /\ UNCHANGED <<rows, cols, type, cost, reach, soln, mazeCost, mazeSoln,
                   queue, local, expanded>>

\* A base case that returns NIL (0) instead of -1.
path_base_zero == NIL

\* The value shortest_path returns when its queue argument is NULL.
path_base == -1

\* shortest_path: one call of the recursion.  While exit is not NULL the list
\* is scanned along next for the record of the exit; from there on exit is
\* NULL and the parents are followed, each marked and counted.  On a NULL
\* queue the pending "1 +" frames unwind onto path_base and the result is
\* returned to traverse_maze.
shortest_path ==
    /\ pc = "shortest_path"
    /\ IF node # 0
       THEN /\ IF exit = NULL \/ queue[node].cell = exit
               THEN /\ soln' = [soln EXCEPT ![queue[node].cell] = TRUE]
                    /\ ret' = ret + 1
                    /\ node' = queue[node].parent
                    /\ exit' = NULL
                    /\ touched' = touched \cup {queue[node].cell}
               ELSE /\ node' = next(queue, node)
                    /\ UNCHANGED <<soln, ret, exit, touched>>
            /\ UNCHANGED pc
       ELSE /\ ret' = ret + path_base
            /\ pc' = "set_solution"
            /\ UNCHANGED <<soln, node, exit, touched>>
    /\ UNCHANGED <<rows, cols, type, cost, reach, mazeCost, mazeSoln, queue,
                   lim, local, exitCost, ex, expanded>>

\* traverse_maze, after shortest_path has returned: the result becomes
\* maze->cost and maze->soln becomes TRUE.
set_solution ==
    /\ pc = "set_solution"
    /\ mazeCost' = ret
    /\ mazeSoln' = TRUE
    /\ pc' = "free_list"
    /\ UNCHANGED <<rows, cols, type, cost, reach, soln, queue, lim, node,
                   local, exit, exitCost, ex, ret, expanded, touched>>

\* free_list releases every record; traverse_maze returns the maze.
free_list ==
    /\ pc = "free_list"
    /\ queue' = <<>>
    /\ pc' = "done"
    /\ UNCHANGED <<rows, cols, type, cost, reach, soln, mazeCost, mazeSoln,
                   lim, node, local, exit, exitCost, ex, ret, expanded,
                   touched>>

Next ==
    \/ find_entries
    \/ recursive_flood
    \/ flood_right
    \/ flood_down
    \/ flood_left
    \/ flood_up
    \/ find_exit
    \/ shortest_path
    \/ set_solution
    \/ free_list

Spec == Init /\ [][Next]_vars

\* The program is one sequential thread: a step that can be taken is taken.
FairSpec == Spec /\ WF_vars(Next)

TypeOK ==
    /\ pc \in {"find_entries", "recursive_flood", "flood_right", "flood_down",
               "flood_left", "flood_up", "find_exit", "shortest_path",
               "set_solution", "free_list", "done"}
    /\ node \in 0 .. Len(queue)
    /\ lim \in 0 .. cols
    /\ mazeSoln \in BOOLEAN

----------------------------------------------------------------------------
\* Reference notions the properties are stated against.

Grid == Cells(rows, cols)
OpenCells == {c \in Grid : type[c] = PATH}
WallCells == {c \in Grid : type[c] = WALL}
Entrances == {c \in OpenCells : c[1] = 0}
LastRow == {c \in Grid : c[1] = rows - 1}
Abs(n) == IF n < 0 THEN -n ELSE n
Adjacent(a, b) == Abs(a[1] - b[1]) + Abs(a[2] - b[2]) = 1
Min(S) == CHOOSE m \in S : \A n \in S : m <= n

\* Multi-source breadth-first search by layers: dist maps every Open cell
\* found so far to its layer, frontier is the last layer found.
RECURSIVE RefBFS(_, _, _)
RefBFS(d, frontier, dist) ==
    IF frontier = {}
    THEN dist
    ELSE LET found == {c \in OpenCells : dist[c] < 0 /\
                          \E f \in frontier : Adjacent(c, f)}
         IN  RefBFS(d + 1, found,
                    [c \in Grid |-> IF c \in found THEN d + 1 ELSE dist[c]])

\* The true shortest hop count of every cell from the nearest entrance,
\* NOTVISIT for a cell no Open path connects to an entrance.
RefDist ==
    RefBFS(0, Entrances, [c \in Grid |-> IF c \in Entrances THEN 0 ELSE NOTVISIT])

\* The flood has returned: recursive_flood found the end of the queue.
Drained == pc \in {"find_exit", "shortest_path", "set_solution", "free_list", "done"}
\* traverse_maze has returned.
Finished == pc = "done"

\* The cells marked on the solution path, and the candidate exits.
Marked == {c \in Grid : soln[c]}
Candidates == {c \in LastRow : type[c] = PATH /\ reach[c]}
MinExits == {c \in Candidates : \A d \in Candidates : cost[c] <= cost[d]}
Leftmost(S) == CHOOSE c \in S : \A d \in S : c[2] <= d[2]

----------------------------------------------------------------------------
\* C1: once the flood has drained the queue, every cell whose cost is present
\* (>= 0) has the true shortest 4-directional hop count through Open cells
\* from the nearest entrance as its cost.
C1_CostIsShortest ==
    Drained => \A c \in Grid : cost[c] >= 0 => cost[c] = RefDist[c]

\* A drained flood that gave some cell a cost of 2 or more.
C1_Witness == Drained /\ \E c \in Grid : cost[c] >= 2

\* C2: after the traversal a cell is reachable if and only if a path of
\* axis-adjacent Open cells connects it to an entrance.
C2_ReachableIffConnected ==
    Finished => \A c \in Grid : reach[c] <=> RefDist[c] >= 0

\* A finished traversal with a connected cell off row 0 and an Open cell that
\* is not connected.
C2_Witness ==
    /\ Finished
    /\ \E c \in OpenCells : c[1] > 0 /\ reach[c]
    /\ \E c \in OpenCells : ~reach[c]

\* C3: after traverse_maze, maze->soln is true if and only if some last-row
\* cell is Open and reachable, and then maze->cost is the minimum cost among
\* the reachable Open last-row cells.
C3_SolutionIsMinExit ==
    Finished =>
        /\ mazeSoln <=> Candidates # {}
        /\ mazeSoln => mazeCost = Min({cost[c] : c \in Candidates})

\* A solved maze whose candidate exits have different costs.
C3_Witness ==
    /\ Finished
    /\ mazeSoln
    /\ \E c, d \in Candidates : cost[c] < cost[d]

\* C4: when several reachable Open last-row cells share the minimum cost,
\* find_exit selects the leftmost of them, and that cell is the one last-row
\* cell marked on the solution path.
C4_LeftmostOnTie ==
    (Finished /\ Cardinality(MinExits) >= 2) =>
        /\ ex = Leftmost(MinExits)
        /\ \A c \in LastRow : soln[c] <=> c = ex

\* A solved maze with two exits of the same minimum cost.
C4_Witness == Finished /\ mazeSoln /\ Cardinality(MinExits) >= 2

\* C5: when maze->soln is true, the marked cells form a simple sequence of
\* axis-adjacent Open cells from an entrance in row 0 to the selected exit,
\* and exactly maze->cost + 1 cells are marked.  The sequence is the marked
\* cells in the order of their costs 0, 1, .., maze->cost.
C5_PathIsSimple ==
    (Finished /\ mazeSoln) =>
        /\ Cardinality(Marked) = mazeCost + 1
        /\ \A k \in 0 .. mazeCost :
               Cardinality({c \in Marked : cost[c] = k}) = 1
        /\ \A c \in Marked :
               /\ type[c] = PATH
               /\ cost[c] = 0 => c \in Entrances
               /\ cost[c] = mazeCost => c = ex
               /\ cost[c] > 0 =>
                      \E d \in Marked : cost[d] = cost[c] - 1 /\ Adjacent(c, d)
        /\ ex \in Marked /\ ex \in LastRow

\* A solved maze whose path has three cells or more.
C5_Witness == Finished /\ mazeSoln /\ mazeCost >= 2 /\ Cardinality(Marked) >= 3

\* C6 as stated: the value shortest_path returns, stored as maze->cost, is
\* the number of cells it marked, entrance and exit included.
C6_ReturnIsCellCount ==
    /\ pc = "set_solution" => ret = Cardinality(Marked)
    /\ (Finished /\ mazeSoln) => mazeCost = Cardinality(Marked)

\* C6 amended: the value shortest_path returns, stored as maze->cost, is one
\* less than the number of cells it marked (the number of hops between them).
C6_ReturnIsHopCount ==
    /\ pc = "set_solution" => ret = Cardinality(Marked) - 1
    /\ (Finished /\ mazeSoln) => mazeCost = Cardinality(Marked) - 1

\* shortest_path has returned after marking two cells or more.
C6_Witness == pc = "set_solution" /\ Cardinality(Marked) >= 2

\* C7: the traversal terminates: the scan reaches the end of the queue
\* although records are appended during it, and after that traverse_maze
\* returns with maze->soln true or false.
C7_Terminates ==
    <>(pc = "find_exit" /\ node = 0 /\ <>(Finished /\ mazeSoln \in BOOLEAN))

\* A finished traversal whose queue grew during the scan.
C7_Witness == Finished /\ \E c \in Grid : cost[c] >= 1

\* C8: in every state, no Wall cell is reachable, no Wall cell has a cost,
\* and no record of the queue refers to a Wall cell.
C8_WallsUntouched ==
    /\ \A c \in WallCells : ~reach[c] /\ cost[c] = NOTVISIT
    /\ \A i \in 1 .. Len(queue) : queue[i].cell \notin WallCells

\* A record with a Wall neighbour has been expanded.
C8_Witness ==
    /\ pc = "recursive_flood"
    /\ node > 1
    /\ \E w \in WallCells : Adjacent(w, queue[node - 1].cell)

\* C9 as stated: after the traversal, a Wall cell that is axis-adjacent to a
\* reachable Open cell is reachable.
C9_WallNextToReachableIsReachable ==
    Finished =>
        \A w \in WallCells : \A o \in OpenCells :
            (Adjacent(w, o) /\ reach[o]) => reach[w]

\* C9 amended: the reachable flag is set only for Open cells; after the
\* traversal, a Wall cell that is axis-adjacent to a reachable Open cell has
\* reachable = false.
C9_WallNextToReachableIsNot ==
    Finished =>
        \A w \in WallCells : \A o \in OpenCells :
            (Adjacent(w, o) /\ reach[o]) => reach[w] = FALSE

\* A finished traversal with a Wall cell next to a reachable Open cell.
C9_Witness ==
    /\ Finished
    /\ \E w \in WallCells : \E o \in OpenCells : Adjacent(w, o) /\ reach[o]

\* C10: when no last-row cell is Open and reachable, traverse_maze ends with
\* maze->soln false, maze->cost at its initial 0 and no cell marked, while
\* every Open cell carries the reachable flag and the cost of the flood.
C10_NoExitLeavesFloodOnly ==
    (Finished /\ Candidates = {}) =>
        /\ mazeSoln = FALSE
        /\ mazeCost = 0
        /\ \A c \in Grid : soln[c] = FALSE
        /\ \A c \in OpenCells :
               /\ reach[c] <=> RefDist[c] >= 0
               /\ cost[c] = RefDist[c]

\* A finished traversal without exit whose flood left row 0; and one with an
\* Open last-row cell that the flood did not reach.
C10_Witness ==
    /\ Finished
    /\ Candidates = {}
    /\ \E c \in OpenCells : cost[c] >= 1
    /\ \E c \in LastRow : type[c] = PATH

\* The 3 x 3 grid with rows ".#.", "...", ".#.".
ScenarioA ==
    [c \in Cells(3, 3) |-> IF c \in {<<0, 1>>, <<2, 1>>} THEN WALL ELSE PATH]

\* C11: on the grid ".#." / "..." / ".#." both entrances (0,0) and (0,2) are
\* reachable, maze->soln is true with the exit in row 2, maze->cost is 2, and
\* the marked path passes through a cell of row 1.
C11_ScenarioA ==
    (Finished /\ rows = 3 /\ cols = 3 /\ type = ScenarioA) =>
        /\ reach[<<0, 0>>] /\ reach[<<0, 2>>]
        /\ mazeSoln
        /\ ex # NULL /\ ex[1] = 2
        /\ mazeCost = 2
        /\ \E c \in Marked : c[1] = 1

\* The traversal of that grid has finished.
C11_Witness == Finished /\ rows = 3 /\ cols = 3 /\ type = ScenarioA

\* The cost of the cell the i-th record of the queue refers to.
QueueCost(i) == cost[queue[i].cell]
\* recursive_flood is expanding the record at node.
InFlood == pc \in {"flood_right", "flood_down", "flood_left", "flood_up"}
\* The queue has not been released.
QueueLive == pc # "done"

\* C12: records are expanded strictly in the order of their creation, which
\* is the order of the queue: the expanded records are always a prefix of
\* the queue, and all of it once the flood has returned.  The costs along
\* the queue never decrease from head to tail, and while a record of depth d
\* is expanded every record of a lower depth has been expanded, no expanded
\* record is deeper than d, and no record is deeper than d + 1.
C12_FifoOrder ==
    QueueLive =>
        /\ \A i, j \in 1 .. Len(queue) : i < j => QueueCost(i) <= QueueCost(j)
        /\ \E k \in 0 .. Len(queue) : expanded = 1 .. k
        /\ (Drained => expanded = 1 .. Len(queue))
        /\ InFlood =>
               /\ node \in expanded
               /\ local.cost = QueueCost(node)
               /\ \A i \in 1 .. Len(queue) :
                      /\ QueueCost(i) <= local.cost + 1
                      /\ QueueCost(i) < local.cost => i \in expanded
                      /\ i \in expanded => QueueCost(i) <= local.cost

\* A record appended during the scan is being expanded, behind records of a
\* lower depth and in front of a record it has just created.
C12_Witness ==
    /\ InFlood
    /\ local.cost >= 1
    /\ Len(queue) > node
    /\ QueueCost(Len(queue)) = local.cost + 1

\* The records of the queue that refer to cell c.
RecordsOf(c) == {i \in 1 .. Len(queue) : queue[i].cell = c}

\* C13: in every state each cell is referenced by at most one record of the
\* queue, and in every step a cell that has a cost keeps it: the 'proposed
\* cost strictly less than current cost' branch of visit_cell never fires.
C13_CostSetOnce ==
    [][/\ \A c \in Grid : Cardinality(RecordsOf(c)) <= 1
       /\ \A c \in Grid : Cardinality(RecordsOf(c))' <= 1
       /\ \A c \in Grid : cost[c] >= 0 => cost'[c] = cost[c]]_vars

\* A flood has just visited a cell that already had a cost and a record.
C13_Witness ==
    /\ pc = "flood_left"
    /\ local.x + 1 < rows
    /\ type[<<local.x + 1, local.y>>] = PATH
    /\ cost[<<local.x + 1, local.y>>] <= local.cost
    /\ Cardinality(RecordsOf(<<local.x + 1, local.y>>)) = 1

\* The root records, and the entrances find_entries has passed so far.
Roots == {i \in 1 .. Len(queue) : queue[i].parent = 0}
Seeded ==
    {c \in Entrances : pc = "find_entries" => c[2] < cols - lim}

\* C14: seeding creates exactly one root record for every Open cell of row 0
\* and for no other cell, in left-to-right column order at the head of the
\* queue, and every entrance has cost 0 and is reachable before any record is
\* expanded (no other cell has a cost, a flag or a record by then).
C14_SeedingRoots ==
    QueueLive =>
        /\ Roots = 1 .. Cardinality(Seeded)
        /\ {queue[i].cell : i \in Roots} = Seeded
        /\ \A i, j \in Roots : i < j => queue[i].cell[2] < queue[j].cell[2]
        /\ \A c \in Seeded : cost[c] = 0 /\ reach[c]
        /\ expanded = {} =>
               /\ Len(queue) = Cardinality(Seeded)
               /\ \A c \in Grid \ Seeded : cost[c] = NOTVISIT /\ ~reach[c]

\* Seeding has returned two entrances or more, with a Wall in row 0, and no
\* record has been expanded.
C14_Witness ==
    /\ pc = "recursive_flood"
    /\ expanded = {}
    /\ Cardinality(Entrances) >= 2
    /\ \E c \in WallCells : c[1] = 0

\* The position of the step from cell a to its neighbour b in the order
\* recursive_flood tries the directions: right, down, left, up.
DirRank(a, b) ==
    IF b[2] = a[2] + 1 THEN 0
    ELSE IF b[1] = a[1] + 1 THEN 1
    ELSE IF b[2] = a[2] - 1 THEN 2
    ELSE 3

\* C15: in every state, a non-root record's cell is axis-adjacent to its
\* parent's cell and costs one more, the parent precedes it in the queue and
\* is the earliest record among those of adjacent cells with cost one less,
\* and the records of one parent follow each other in the order right, down,
\* left, up; a root record's cell lies in row 0 with cost 0.
C15_FirstDiscoveryTree ==
    QueueLive =>
        \A j \in 1 .. Len(queue) :
            LET p == queue[j].parent
                c == queue[j].cell
            IN  IF p = 0
                THEN c[1] = 0 /\ cost[c] = 0
                ELSE /\ p \in 1 .. j - 1
                     /\ Adjacent(c, queue[p].cell)
                     /\ cost[c] = QueueCost(p) + 1
                     /\ \A i \in 1 .. Len(queue) :
                            /\ (Adjacent(queue[i].cell, c) /\
                                QueueCost(i) = cost[c] - 1) => p <= i
                            /\ (i < j /\ queue[i].parent = p) =>
                                   DirRank(queue[p].cell, queue[i].cell) <
                                   DirRank(queue[p].cell, c)

\* A record whose cell has two neighbours of cost one less, and a parent with
\* two records.
C15_Witness ==
    /\ QueueLive
    /\ \E j, i \in 1 .. Len(queue) :
           /\ queue[j].parent # 0
           /\ i # queue[j].parent
           /\ Adjacent(queue[i].cell, queue[j].cell)
           /\ QueueCost(i) = QueueCost(j) - 1
    /\ \E j, i \in 1 .. Len(queue) :
           i < j /\ queue[i].parent # 0 /\ queue[i].parent = queue[j].parent

\* C16: after every seeding or visit step a cell is reachable if and only if
\* its cost is present, and (while the queue lives) if and only if exactly
\* one record refers to it; at the end an Open cell that is not connected to
\* an entrance is not reachable and has no cost.
C16_ReachCostRecord ==
    /\ \A c \in Grid : reach[c] <=> cost[c] >= 0
    /\ QueueLive =>
           \A c \in Grid : reach[c] <=> Cardinality(RecordsOf(c)) = 1
    /\ Finished =>
           \A c \in OpenCells :
               RefDist[c] < 0 => ~reach[c] /\ cost[c] = NOTVISIT

\* The flood has returned after visiting cells off row 0, and an Open cell
\* below row 0 is not connected to any entrance.
C16_Witness ==
    /\ pc = "find_exit"
    /\ \E c \in Grid : cost[c] >= 1 /\ Cardinality(RecordsOf(c)) = 1
    /\ \E c \in OpenCells : c[1] > 0 /\ RefDist[c] < 0 /\ ~reach[c]

\* C17: although each flood direction checks only the bound of the axis it
\* moves along, every cell the traversal reads or writes lies inside the
\* grid, 0 <= row < rows and 0 <= column < cols, for every grid shape.
C17_StaysInGrid ==
    /\ \A c \in touched : c[1] \in 0 .. rows - 1 /\ c[2] \in 0 .. cols - 1
    /\ InFlood => <<local.x, local.y>> \in Grid

\* A single-column grid of two rows or more has been flooded down to its
\* last row, so that records on all four borders were expanded.
C17_Witness ==
    /\ Finished
    /\ cols = 1
    /\ rows >= 2
    /\ reach[<<rows - 1, 0>>]
    /\ touched = Grid

====
